---- MODULE Spec2Model ----
(***************************************************************************)
(* A model of package routing (routing.go): the reader of the Linux route  *)
(* pseudo-file /proc/net/route, its flag and address decoders and the      *)
(* default-gateway selector.                                               *)
(*                                                                         *)
(* Go strings are sequences of one-character strings.  An int64 is four    *)
(* 16-bit limbs, least significant first, in two's complement, so that the *)
(* 64-bit arithmetic of strconv.ParseInt and the shifts of DecimalToIP are *)
(* computed at their real width.                                           *)
(***************************************************************************)
EXTENDS Integers, Sequences, FiniteSets, TLC

VARIABLES
    columns,        \* the kernel's column order of /proc/net/route
    routes,         \* the kernel's routes, one record of field texts per data row
    newline,        \* whether the text ends with a newline
    fault,          \* which file operation fails: "none", "open" or "read"
    decimal,        \* the argument of DecimalToIP (an int64)
    bits,           \* the argument of computeRouteFlag (an int16)
    handle,         \* the os.File of GetLinuxRoutingTable: "none", "open", "closed"
    ret             \* what the last call returned

vars == <<columns, routes, newline, fault, decimal, bits, handle, ret>>

----------------------------------------------------------------------------
(* Bounds of the model. *)

\* computeRouteFlag is applied to every bitmask in -1..MaxBits.
MaxBits == 255
\* DecimalToIP is applied to octets within EdgeWidth of 0 and of 255 (and a few
\* octets in between).
EdgeWidth == 1
\* A table holds at most MaxRows data rows.
MaxRows == 2

----------------------------------------------------------------------------
(* Go strings. *)

TAB == "\t"
LF == "\n"

\* unicode.IsSpace on the characters the model uses
IsSpace(c) == c \in {" ", TAB, LF, "\r", "\f"}

\* strings.Split(s, sep) for a one-character separator: the pieces of s between
\* the occurrences of sep, one more piece than there are occurrences.
Split(s, sep) ==
    LET at == {i \in 1..Len(s) : s[i] = sep}
        \* the k-th occurrence of sep; 0 before the first, Len(s) + 1 after the last
        pos(k) == IF k = 0 THEN 0
                  ELSE IF k > Cardinality(at) THEN Len(s) + 1
                  ELSE CHOOSE i \in at : Cardinality({j \in at : j <= i}) = k
    IN  [k \in 1..(Cardinality(at) + 1) |-> SubSeq(s, pos(k - 1) + 1, pos(k) - 1)]

\* strings.Contains(s, substr)
Contains(s, substr) ==
    \E i \in 0..(Len(s) - Len(substr)) : SubSeq(s, i + 1, i + Len(substr)) = substr

RECURSIVE TrimLeft(_)
TrimLeft(s) == IF s # <<>> /\ IsSpace(s[1]) THEN TrimLeft(Tail(s)) ELSE s

RECURSIVE TrimRight(_)
TrimRight(s) ==
    IF s # <<>> /\ IsSpace(s[Len(s)]) THEN TrimRight(SubSeq(s, 1, Len(s) - 1)) ELSE s

\* strings.TrimSpace(s)
TrimSpace(s) == TrimRight(TrimLeft(s))

DigitChars ==
    <<"0", "1", "2", "3", "4", "5", "6", "7", "8", "9",
      "a", "b", "c", "d", "e", "f", "g", "h", "i", "j", "k", "l", "m",
      "n", "o", "p", "q", "r", "s", "t", "u", "v", "w", "x", "y", "z">>

UpperChars ==
    <<"A", "B", "C", "D", "E", "F", "G", "H", "I", "J", "K", "L", "M",
      "N", "O", "P", "Q", "R", "S", "T", "U", "V", "W", "X", "Y", "Z">>

\* strconv's lower(c)
Lower(c) ==
    IF \E k \in 1..Len(UpperChars) : UpperChars[k] = c
    THEN DigitChars[10 + CHOOSE k \in 1..Len(UpperChars) : UpperChars[k] = c]
    ELSE c

\* The digit a character stands for in strconv.ParseUint, -1 when it is none.
DigitVal(c) ==
    LET l == Lower(c)
    IN  IF \E k \in 1..Len(DigitChars) : DigitChars[k] = l
        THEN (CHOOSE k \in 1..Len(DigitChars) : DigitChars[k] = l) - 1
        ELSE -1

RECURSIVE Itoa(_)
\* the decimal digits of a byte, as net.IP.String writes them
Itoa(n) ==
    IF n < 10 THEN <<DigitChars[n + 1]>>
    ELSE Itoa(n \div 10) \o <<DigitChars[(n % 10) + 1]>>

----------------------------------------------------------------------------
(* 64-bit integers. *)

LimbBase == 2^16

Zero64 == <<0, 0, 0, 0>>

\* n * m + d on 64 bits, with the carry out of bit 63
MulAdd(n, m, d) ==
    LET c1 == n[1] * m + d
        c2 == n[2] * m + (c1 \div LimbBase)
        c3 == n[3] * m + (c2 \div LimbBase)
        c4 == n[4] * m + (c3 \div LimbBase)
    IN  [limbs |-> <<c1 % LimbBase, c2 % LimbBase, c3 % LimbBase, c4 % LimbBase>>,
         carry |-> c4 \div LimbBase]

\* unsigned a > b
GT64(a, b) == \E i \in 1..4 : a[i] > b[i] /\ \A j \in (i + 1)..4 : a[j] = b[j]

\* 2^k as an unsigned 64-bit value, 0 <= k < 64
Pow2(k) == [i \in 1..4 |-> IF i = (k \div 16) + 1 THEN 2^(k % 16) ELSE 0]

\* -n (two's complement)
Neg64(n) == MulAdd([i \in 1..4 |-> (LimbBase - 1) - n[i]], 1, 1).limbs

\* n - 1 for n > 0
Dec64(n) == Neg64(MulAdd(Neg64(n), 1, 1).limbs)

\* uint64(1)<<bitSize - 1
MaxVal(bitSize) == Dec64(IF bitSize = 64 THEN Zero64 ELSE Pow2(bitSize))

\* int16(v), int8(v): the truncating conversions
ToInt16(v) == IF v[1] >= 2^15 THEN v[1] - 2^16 ELSE v[1]
ToInt8(v) == LET b == v[1] % 2^8 IN IF b >= 2^7 THEN b - 2^8 ELSE b

\* byte(v >> (8 * k)), 0 <= k < 8
ByteOf(v, k) ==
    LET limb == v[(k \div 2) + 1]
    IN  IF k % 2 = 0 THEN limb % 2^8 ELSE limb \div 2^8

----------------------------------------------------------------------------
(* strconv.ParseInt *)

NoError == [kind |-> "nil", num |-> <<>>]
\* errors.New(text): kind names the failure, num the value a NumError quotes
Error(kind, num) == [kind |-> kind, num |-> num]

RECURSIVE ParseUintLoop(_, _, _, _, _)
ParseUintLoop(s, i, base, bitSize, n) ==
    IF i > Len(s) THEN [n |-> n, err |-> "nil"]
    ELSE LET d == DigitVal(s[i])
         IN  IF d < 0 \/ d >= base THEN [n |-> Zero64, err |-> "syntax"]
             ELSE LET m == MulAdd(n, base, d)
                  IN  IF m.carry # 0 \/ GT64(m.limbs, MaxVal(bitSize))
                      THEN [n |-> MaxVal(bitSize), err |-> "range"]
                      ELSE ParseUintLoop(s, i + 1, base, bitSize, m.limbs)

\* strconv.ParseUint(s, base, bitSize), 2 <= base <= 36, bitSize > 0
ParseUint(s, base, bitSize) ==
    IF s = <<>> THEN [n |-> Zero64, err |-> "syntax"]
    ELSE ParseUintLoop(s, 1, base, bitSize, Zero64)

\* strconv.ParseInt(s, base, bitSize), 2 <= base <= 36, bitSize > 0
ParseInt(s, base, bitSize) ==
    IF s = <<>> THEN [val |-> Zero64, err |-> Error("syntax", s)]
    ELSE LET neg == s[1] = "-"
             body == IF s[1] \in {"+", "-"} THEN Tail(s) ELSE s
             u == ParseUint(body, base, bitSize)
             cutoff == Pow2(bitSize - 1)
         IN  IF u.err = "syntax" THEN [val |-> Zero64, err |-> Error("syntax", s)]
             ELSE IF ~neg /\ ~GT64(cutoff, u.n)
                  THEN [val |-> Dec64(cutoff), err |-> Error("range", s)]
             ELSE IF neg /\ GT64(u.n, cutoff)
                  THEN [val |-> Neg64(cutoff), err |-> Error("range", s)]
             ELSE [val |-> IF neg THEN Neg64(u.n) ELSE u.n, err |-> NoError]

----------------------------------------------------------------------------
(* The decoders. *)

routeFlags ==
    << [Letter |-> <<"U">>, Bit |-> 1, Name |-> "Up",
        Desc |-> "Route is usable (interface is up)"],
       [Letter |-> <<"G">>, Bit |-> 2, Name |-> "Gateway",
        Desc |-> "Destination is a gateway"],
       [Letter |-> <<"H">>, Bit |-> 4, Name |-> "Host",
        Desc |-> "Target is a host (not a network)"],
       [Letter |-> <<"R">>, Bit |-> 8, Name |-> "Reinstate",
        Desc |-> "Route was reinstated for dynamic routing"],
       [Letter |-> <<"D">>, Bit |-> 16, Name |-> "Dynamic",
        Desc |-> "Route was dynamically created by daemon or redirect"],
       [Letter |-> <<"M">>, Bit |-> 32, Name |-> "Modified",
        Desc |-> "Route was modified by redirect"],
       [Letter |-> <<"A">>, Bit |-> 64, Name |-> "Addrconf",
        Desc |-> "Route created by address autoconf"],
       [Letter |-> <<"C">>, Bit |-> 128, Name |-> "Cache",
        Desc |-> "Route is in cache"] >>

\* net.IPv4(a, b, c, d).String()
IPv4String(a, b, c, d) ==
    Itoa(a) \o <<".">> \o Itoa(b) \o <<".">> \o Itoa(c) \o <<".">> \o Itoa(d)

\* The octets in network order, most significant byte first.
DecimalToIP_BigEndian(v) ==
    IPv4String(ByteOf(v, 3), ByteOf(v, 2), ByteOf(v, 1), ByteOf(v, 0))

DecimalToIP(v) ==
    IPv4String(ByteOf(v, 0), ByteOf(v, 1), ByteOf(v, 2), ByteOf(v, 3))

RECURSIVE computeRouteFlagLoop(_, _, _, _)
\* The loop of computeRouteFlag at index i (a Go index, from 0); indexing
\* routeFlags past its end panics.
computeRouteFlagLoop(b, i, counter, rf) ==
    IF ~(i < b) THEN [panic |-> FALSE, rf |-> rf]
    ELSE IF i >= Len(routeFlags) THEN [panic |-> TRUE, rf |-> <<>>]
    ELSE IF counter = routeFlags[i + 1].Bit
         THEN computeRouteFlagLoop(b, i + 1, counter + 1, Append(rf, routeFlags[i + 1]))
         ELSE computeRouteFlagLoop(b, i + 1, counter, rf)

computeRouteFlag(b) == computeRouteFlagLoop(b, 0, 1, <<>>)

----------------------------------------------------------------------------
(* The route pseudo-file. *)

Canonical ==
    <<"Iface", "Destination", "Gateway", "Flags", "RefCnt", "Use", "Metric",
      "Mask", "MTU", "Window", "IRTT">>

\* The header row's spelling of each column; the kernel pads Gateway.
HeaderText ==
    [Iface |-> <<"I", "f", "a", "c", "e">>,
     Destination |-> <<"D", "e", "s", "t", "i", "n", "a", "t", "i", "o", "n">>,
     Gateway |-> <<"G", "a", "t", "e", "w", "a", "y", " ">>,
     Flags |-> <<"F", "l", "a", "g", "s">>,
     RefCnt |-> <<"R", "e", "f", "C", "n", "t">>,
     Use |-> <<"U", "s", "e">>,
     Metric |-> <<"M", "e", "t", "r", "i", "c">>,
     Mask |-> <<"M", "a", "s", "k">>,
     MTU |-> <<"M", "T", "U">>,
     Window |-> <<"W", "i", "n", "d", "o", "w">>,
     IRTT |-> <<"I", "R", "T", "T">>]

RECURSIVE Join(_, _)
\* strings.Join(parts, sep)
Join(parts, sep) ==
    IF parts = <<>> THEN <<>>
    ELSE IF Len(parts) = 1 THEN parts[1]
    ELSE parts[1] \o <<sep>> \o Join(Tail(parts), sep)

\* One data row as text: its fields in column order, then any surplus fields.
RowText(cols, r) == Join([n \in 1..Len(cols) |-> r[cols[n]]] \o r.Extra, TAB)

\* The text of the pseudo-file: the header row, then the data rows.
Render(cols, rows, nl) ==
    Join(<<Join([n \in 1..Len(cols) |-> HeaderText[cols[n]]], TAB)>>
         \o [k \in 1..Len(rows) |-> RowText(cols, rows[k])], LF)
    \o (IF nl THEN <<LF>> ELSE <<>>)

procNetRoute == Render(columns, routes, newline)

----------------------------------------------------------------------------
(* GetLinuxRoutingTable *)

\* RoutingTable{}
ZeroRow ==
    [Interface |-> <<>>, Destination |-> <<>>, Gateway |-> <<>>, Flags |-> <<>>,
     RefCnt |-> 0, Use |-> 0, Metric |-> 0, Mask |-> <<>>, MTU |-> 0,
     Window |-> 0, IRTT |-> 0]

\* What a step of the parser yields: kind is "ok", "err" (return nil, err)
\* or "panic".
Step(kind, row, err) == [kind |-> kind, row |-> row, err |-> err]

\* case "Gateway"
GatewayField(rtRow, v) ==
    LET p == ParseInt(v, 16, 64)
    IN  IF p.err # NoError THEN Step("err", ZeroRow, p.err)
        ELSE Step("ok", [rtRow EXCEPT !.Gateway = DecimalToIP(p.val)], NoError)

\* case "Flags"
FlagsField(rtRow, v) ==
    LET f == computeRouteFlag(ToInt16(ParseInt(v, 10, 16).val))
    IN  IF f.panic THEN Step("panic", ZeroRow, NoError)
        ELSE Step("ok", [rtRow EXCEPT !.Flags = f.rf], NoError)

\* The cases that parse an int8 and drop the error.
Int8Field(v) == ToInt8(ParseInt(v, 10, 8).val)

\* switch d { ... } on one field v of a data row
SetField(rtRow, d, v) ==
    IF d = <<"I", "f", "a", "c", "e">> THEN Step("ok", [rtRow EXCEPT !.Interface = v], NoError)
    ELSE IF d = <<"D", "e", "s", "t", "i", "n", "a", "t", "i", "o", "n">>
         THEN Step("ok", [rtRow EXCEPT !.Destination = v], NoError)
    ELSE IF d = <<"G", "a", "t", "e", "w", "a", "y">> THEN GatewayField(rtRow, v)
    ELSE IF d = <<"F", "l", "a", "g", "s">> THEN FlagsField(rtRow, v)
    ELSE IF d = <<"R", "e", "f", "C", "n", "t">>
         THEN Step("ok", [rtRow EXCEPT !.RefCnt = Int8Field(v)], NoError)
    ELSE IF d = <<"U", "s", "e">> THEN Step("ok", [rtRow EXCEPT !.Use = Int8Field(v)], NoError)
    ELSE IF d = <<"M", "e", "t", "r", "i", "c">>
         THEN Step("ok", [rtRow EXCEPT !.Metric = Int8Field(v)], NoError)
    ELSE IF d = <<"M", "a", "s", "k">> THEN Step("ok", [rtRow EXCEPT !.Mask = v], NoError)
    ELSE IF d = <<"M", "T", "U">> THEN Step("ok", [rtRow EXCEPT !.MTU = Int8Field(v)], NoError)
    ELSE IF d = <<"W", "i", "n", "d", "o", "w">>
         THEN Step("ok", [rtRow EXCEPT !.Window = Int8Field(v)], NoError)
    ELSE IF d = <<"I", "R", "T", "T">> THEN Step("ok", [rtRow EXCEPT !.IRTT = Int8Field(v)], NoError)
    ELSE Step("ok", rtRow, NoError)

RECURSIVE ParseColumns(_, _, _, _)

\* After the switch on the n-th field yielded r: return its error or panic,
\* or go on to the next field.
NextColumn(description, fColumn, n, r) ==
    IF r.kind # "ok" THEN r ELSE ParseColumns(description, fColumn, n + 1, r.row)

\* for n, v := range fColumn, from the n-th field (from 1); description[n]
\* past the header's last column panics.
ParseColumns(description, fColumn, n, rtRow) ==
    IF n > Len(fColumn) THEN Step("ok", rtRow, NoError)
    ELSE IF n > Len(description) THEN Step("panic", ZeroRow, NoError)
    ELSE NextColumn(description, fColumn, n,
                    SetField(rtRow, TrimSpace(description[n]), fColumn[n]))

\* A row of the text is skipped when it contains "Iface" anywhere.
IsHeaderRow(v) == Contains(v, <<"I", "f", "a", "c", "e">>)

RECURSIVE ParseRows(_, _, _, _)

\* After the fields of the k-th row yielded r: return its error or panic, or
\* append the entry and go on to the next row.
NextRow(fRows, description, k, table, r) ==
    IF r.kind # "ok" THEN [kind |-> r.kind, table |-> <<>>, err |-> r.err]
    ELSE ParseRows(fRows, description, k + 1, Append(table, r.row))

\* for _, v := range fRows, from the k-th row (from 1)
ParseRows(fRows, description, k, table) ==
    IF k > Len(fRows) THEN [kind |-> "ok", table |-> table, err |-> NoError]
    ELSE IF IsHeaderRow(fRows[k]) THEN ParseRows(fRows, description, k + 1, table)
    ELSE NextRow(fRows, description, k, table,
                 ParseColumns(description, Split(fRows[k], TAB), 1, ZeroRow))

\* Lines 94-155 on the rows of the text: description is the first row's fields.
parseRows(fRows) == ParseRows(fRows, Split(fRows[1], TAB), 1, <<>>)

\* Lines 94-155: the text of the file to (table, error).
parseTable(fTable) == parseRows(Split(fTable, LF))

\* GetLinuxRoutingTable() when the file holds text and the file operation
\* flt fails: what it returns, and the state it leaves the file handle in.
\* The deferred Close is registered only after the read has succeeded; it
\* runs on return and on panic alike.
GetLinuxRoutingTable(text, flt) ==
    IF flt = "open"
    THEN [kind |-> "err", table |-> <<>>, err |-> Error("open", <<>>), handle |-> "none"]
    ELSE IF flt = "read"
    THEN [kind |-> "err", table |-> <<>>, err |-> Error("read", <<>>), handle |-> "open"]
    ELSE LET r == parseTable(text)
         IN  [kind |-> r.kind, table |-> r.table, err |-> r.err, handle |-> "closed"]

----------------------------------------------------------------------------
(* What a call returns.  outcome is "ok" (a value and a nil error), "err"   *)
(* (a non-nil error) or "panic" (a run-time fault unwinds the call).        *)

Ret(op, outcome, table, str, flags, err, tr) ==
    [op |-> op, outcome |-> outcome, table |-> table, str |-> str,
     flags |-> flags, err |-> err, tr |-> tr]

NoCall == Ret("none", "none", <<>>, <<>>, <<>>, NoError, ZeroRow)

----------------------------------------------------------------------------
(* The gateway selector. *)

RECURSIVE flagContainsFrom(_, _, _)
flagContainsFrom(rf, letter, i) ==
    IF i > Len(rf) THEN FALSE
    ELSE IF Contains(rf[i].Letter, letter) THEN TRUE
    ELSE flagContainsFrom(rf, letter, i + 1)

flagContains(rf, letter) == flagContainsFrom(rf, letter, 1)

RECURSIVE getDefaultGWLoop(_, _, _, _)
\* for _, v := range rt, from the i-th entry (from 1); up and gateway are
\* declared before the loop and keep their value from one entry to the next.
getDefaultGWLoop(rt, i, up, gateway) ==
    IF i > Len(rt)
    THEN IF Len(rt) = 0 THEN Step("panic", ZeroRow, NoError)
         ELSE Step("err", rt[1], Error("could not locate default GW", <<>>))
    ELSE LET up1 == up \/ flagContains(rt[i].Flags, <<"U">>)
             gateway1 == gateway \/ flagContains(rt[i].Flags, <<"G">>)
         IN  IF up1 /\ gateway1 THEN Step("ok", rt[i], NoError)
             ELSE getDefaultGWLoop(rt, i + 1, up1, gateway1)

\* getDefaultGW() on what GetLinuxRoutingTable returned; rt[0] of the nil
\* table of a failed read panics.
getDefaultGW(g) ==
    IF g.kind = "panic" THEN Step("panic", ZeroRow, NoError)
    ELSE IF g.kind = "err"
         THEN IF Len(g.table) = 0 THEN Step("panic", ZeroRow, NoError)
              ELSE Step("err", g.table[1], g.err)
    ELSE getDefaultGWLoop(g.table, 1, FALSE, FALSE)

\* What FindLinuxDefaultGW (field Gateway) and FindLinuxDefaultGGWInterface
\* (field Interface) return once getDefaultGW yielded tr: "" and the error, or
\* the field of the selected entry.
FindLinuxReturn(op, field, tr) ==
    IF tr.kind = "panic" THEN Ret(op, "panic", <<>>, <<>>, <<>>, NoError, ZeroRow)
    ELSE IF tr.kind = "err" THEN Ret(op, "err", <<>>, <<>>, <<>>, tr.err, tr.row)
    ELSE Ret(op, "ok", <<>>, tr.row[field], <<>>, NoError, tr.row)

FindLinuxDefaultGW(g) ==
    FindLinuxReturn("FindLinuxDefaultGW", "Gateway", getDefaultGW(g))

FindLinuxDefaultGGWInterface(g) ==
    FindLinuxReturn("FindLinuxDefaultGGWInterface", "Interface", getDefaultGW(g))

----------------------------------------------------------------------------
(* The calls on a pseudo-file. *)

Swap(s, i, j) == [s EXCEPT ![i] = s[j], ![j] = s[i]]
Reverse(s) == [n \in 1..Len(s) |-> s[Len(s) + 1 - n]]

\* Column orders: the kernel's, Gateway first, Flags first, and reversed.
Orders == {Canonical, Swap(Canonical, 1, 3), Swap(Canonical, 1, 4), Reverse(Canonical)}

BaseRoute ==
    [Iface |-> <<"e", "t", "h", "0">>, Destination |-> <<"0", "0", "0", "0", "0", "0", "0", "0">>, Gateway |-> <<"0", "1", "0", "0", "0", "0", "0", "A">>,
     Flags |-> <<"3">>, RefCnt |-> <<"0">>, Use |-> <<"0">>, Metric |-> <<"0">>,
     Mask |-> <<"0", "0", "0", "0", "0", "0", "0", "0">>, MTU |-> <<"0">>, Window |-> <<"0">>, IRTT |-> <<"0">>,
     Extra |-> <<>>]

\* The data rows tables are built from.  Each has a Destination of its own.
RouteChoices ==
    { \* the default route: Up and Gateway
      [BaseRoute EXCEPT !.Metric = <<"1", "0", "0">>],
      \* a directly connected network: Up only
      [BaseRoute EXCEPT !.Destination = <<"0", "0", "0", "0", "0", "0", "0", "A">>, !.Gateway = <<"0", "0", "0", "0", "0", "0", "0", "0">>,
                        !.Flags = <<"1">>, !.Mask = <<"0", "0", "F", "F", "F", "F", "F", "F">>],
      \* a host route: Up and Host
      [BaseRoute EXCEPT !.Iface = <<"w", "l", "a", "n", "0">>, !.Destination = <<"0", "5", "0", "1", "A", "8", "C", "0">>,
                        !.Gateway = <<"0", "1", "0", "1", "A", "8", "C", "0">>, !.Flags = <<"5">>,
                        !.Mask = <<"F", "F", "F", "F", "F", "F", "F", "F">>],
      \* a gateway route that is not up
      [BaseRoute EXCEPT !.Destination = <<"0", "0", "0", "2", "A", "8", "C", "0">>, !.Gateway = <<"F", "E", "0", "1", "A", "8", "C", "0">>,
                        !.Flags = <<"2">>, !.Mask = <<"0", "0", "F", "F", "F", "F", "F", "F">>],
      \* Up, Gateway and Dynamic
      [BaseRoute EXCEPT !.Destination = <<"0", "0", "0", "3", "A", "8", "C", "0">>, !.Flags = <<"1", "9">>,
                        !.Mask = <<"0", "0", "F", "F", "F", "F", "F", "F">>],
      \* Up, Gateway and Host
      [BaseRoute EXCEPT !.Destination = <<"0", "7", "0", "4", "A", "8", "C", "0">>, !.Gateway = <<"0", "1", "0", "2", "A", "8", "C", "0">>,
                        !.Flags = <<"7">>, !.Mask = <<"F", "F", "F", "F", "F", "F", "F", "F">>],
      \* a Gateway that is not hexadecimal
      [BaseRoute EXCEPT !.Destination = <<"0", "0", "0", "5", "A", "8", "C", "0">>, !.Gateway = <<"z", "z">>],
      \* Flags that are not a number
      [BaseRoute EXCEPT !.Destination = <<"0", "0", "0", "6", "A", "8", "C", "0">>, !.Flags = <<"x", "x">>],
      \* a Metric beyond 8 bits
      [BaseRoute EXCEPT !.Destination = <<"0", "0", "0", "7", "A", "8", "C", "0">>, !.Flags = <<"1">>,
                        !.Metric = <<"3", "0", "0">>],
      \* a row with one field more than the header has columns
      [BaseRoute EXCEPT !.Destination = <<"0", "0", "0", "8", "A", "8", "C", "0">>, !.Flags = <<"1">>,
                        !.Extra = <<<<"0">>>>] }

RECURSIVE SeqsUpTo(_, _)
\* every sequence over S of length at most n
SeqsUpTo(S, n) ==
    IF n = 0 THEN {<<>>}
    ELSE LET shorter == SeqsUpTo(S, n - 1)
         IN  shorter \cup {Append(q, x) : q \in shorter, x \in S}

Init ==
    /\ columns \in Orders
    /\ routes \in SeqsUpTo(RouteChoices, MaxRows)
    /\ newline \in BOOLEAN
    /\ fault \in {"none", "open", "read"}
    /\ decimal = Zero64
    /\ bits = 0
    /\ handle = "none"
    /\ ret = NoCall

CallGetLinuxRoutingTable ==
    /\ ret.op = "none"
    /\ \E g \in {GetLinuxRoutingTable(procNetRoute, fault)} :
           /\ ret' = Ret("GetLinuxRoutingTable", g.kind, g.table, <<>>, <<>>, g.err, ZeroRow)
           /\ handle' = g.handle
    /\ UNCHANGED <<columns, routes, newline, fault, decimal, bits>>

CallFindLinuxDefaultGW ==
    /\ ret.op = "none"
    /\ \E g \in {GetLinuxRoutingTable(procNetRoute, fault)} :
           /\ ret' = FindLinuxDefaultGW(g)
           /\ handle' = g.handle
    /\ UNCHANGED <<columns, routes, newline, fault, decimal, bits>>

CallFindLinuxDefaultGGWInterface ==
    /\ ret.op = "none"
    /\ \E g \in {GetLinuxRoutingTable(procNetRoute, fault)} :
           /\ ret' = FindLinuxDefaultGGWInterface(g)
           /\ handle' = g.handle
    /\ UNCHANGED <<columns, routes, newline, fault, decimal, bits>>

Next ==
    \/ CallGetLinuxRoutingTable
    \/ CallFindLinuxDefaultGW
    \/ CallFindLinuxDefaultGGWInterface

Spec == Init /\ [][Next]_vars

----------------------------------------------------------------------------
(* The decoders applied to bounded inputs. *)

Octets == (0..EdgeWidth) \cup ((255 - EdgeWidth)..255) \cup {9, 10, 99, 100, 168, 192}

\* int64 arguments: every 32-bit value with octets in Octets, the same above
\* 2^32, and the same with the upper half all ones (negative values).
DecimalInputs ==
    { <<o0 + 2^8 * o1, o2 + 2^8 * o3, u, u>> :
        o0 \in Octets, o1 \in Octets, o2 \in Octets, o3 \in Octets,
        u \in {0, LimbBase - 1} }
    \cup { <<o0 + 2^8 * o1, 0, 1, 0>> : o0 \in Octets, o1 \in Octets }

InitIP ==
    /\ columns = Canonical
    /\ routes = <<>>
    /\ newline = TRUE
    /\ fault = "none"
    /\ decimal \in DecimalInputs
    /\ bits = 0
    /\ handle = "none"
    /\ ret = NoCall

CallDecimalToIP ==
    /\ ret.op = "none"
    /\ ret' = Ret("DecimalToIP", "ok", <<>>, DecimalToIP(decimal), <<>>, NoError, ZeroRow)
    /\ UNCHANGED <<columns, routes, newline, fault, decimal, bits, handle>>

NextIP == CallDecimalToIP

SpecIP == InitIP /\ [][NextIP]_vars

InitFlags ==
    /\ columns = Canonical
    /\ routes = <<>>
    /\ newline = TRUE
    /\ fault = "none"
    /\ decimal = Zero64
    /\ bits \in (-1)..MaxBits
    /\ handle = "none"
    /\ ret = NoCall

CallComputeRouteFlag ==
    /\ ret.op = "none"
    /\ LET r == computeRouteFlag(bits)
       IN  ret' = Ret("computeRouteFlag", IF r.panic THEN "panic" ELSE "ok",
                      <<>>, <<>>, r.rf, NoError, ZeroRow)
    /\ UNCHANGED <<columns, routes, newline, fault, decimal, bits, handle>>

NextFlags == CallComputeRouteFlag

SpecFlags == InitFlags /\ [][NextFlags]_vars

----------------------------------------------------------------------------
(* The claims. *)

FindOps == {"FindLinuxDefaultGW", "FindLinuxDefaultGGWInterface"}

\* bit (a power of two) is set in the bitmask b >= 0
HasBit(b, bit) == (b \div bit) % 2 = 1

\* the named flags whose bit is set in b, in ascending bit order
SetFlags(b) ==
    LET Set(f) == HasBit(b, f.Bit)
    IN  SelectSeq(routeFlags, Set)

\* the Flags bitmask a data row holds
FlagsOf(r) == ToInt16(ParseInt(r.Flags, 10, 16).val)

UpAndGateway(r) == FlagsOf(r) >= 0 /\ HasBit(FlagsOf(r), 1) /\ HasBit(FlagsOf(r), 2)

\* the entry tr was read from the data row r
IsRow(tr, r) ==
    /\ tr.Interface = r.Iface
    /\ tr.Destination = r.Destination
    /\ tr.Mask = r.Mask

\* C1: for every bitmask b in 0..255 computeRouteFlag returns, without
\* faulting, exactly the named flags whose bit is set in b, in ascending bit
\* order (3 gives Up, Gateway; 7 gives Up, Gateway, Host).
C1_DecodesSetBits ==
    (ret.op = "computeRouteFlag" /\ bits \in 0..255)
        => (ret.outcome = "ok" /\ ret.flags = SetFlags(bits))

\* C2: the entry the gateway selector returns is the first data row, in file
\* order, whose Flags bitmask has both the Up bit and the Gateway bit: that row
\* has both bits and no earlier row has both.
C2_FirstUpGatewayRow ==
    (ret.op \in FindOps /\ ret.outcome = "ok")
        => \E i \in 1..Len(routes) :
              /\ IsRow(ret.tr, routes[i])
              /\ UpAndGateway(routes[i])
              /\ \A j \in 1..(i - 1) : ~UpAndGateway(routes[j])

\* C3: when the table parses and no data row has both Up and Gateway (a table
\* with no entries included), FindLinuxDefaultGW and
\* FindLinuxDefaultGGWInterface return "" and the not-found error; they
\* neither return a row's value nor panic.
C3_NotFoundError ==
    ( /\ ret.op \in FindOps
      /\ GetLinuxRoutingTable(procNetRoute, fault).kind = "ok"
      /\ \A i \in 1..Len(routes) : ~UpAndGateway(routes[i]) )
        => ( /\ ret.outcome = "err"
             /\ ret.err = Error("could not locate default GW", <<>>)
             /\ ret.str = <<>> )

\* C4: when GetLinuxRoutingTable returns an error, FindLinuxDefaultGW and
\* FindLinuxDefaultGGWInterface return "" and that error; they do not panic.
C4_PropagatesTableError ==
    (ret.op \in FindOps /\ GetLinuxRoutingTable(procNetRoute, fault).kind = "err")
        => ( /\ ret.outcome = "err"
             /\ ret.str = <<>>
             /\ ret.err = GetLinuxRoutingTable(procNetRoute, fault).err )

\* the columns parsed as decimal numbers, with the width each is parsed at
DecimalColumns == {"Flags", "RefCnt", "Use", "Metric", "MTU", "Window", "IRTT"}
BitSize(c) == IF c = "Flags" THEN 16 ELSE 8

\* the values of a data row's numeric columns that fail integer parsing
FailingValues(r) ==
    {r[c] : c \in {d \in DecimalColumns : ParseInt(r[d], 10, BitSize(d)).err # NoError}}
    \cup (IF ParseInt(r.Gateway, 16, 64).err # NoError THEN {r.Gateway} ELSE {})

\* C5: when a data row holds, in a numeric column, a value that fails integer
\* parsing, GetLinuxRoutingTable returns no entries and a parse error that
\* names a failing value; it does not panic and stores no default or clamped
\* value.
C5_ParseErrorSurfaces ==
    ( /\ ret.op = "GetLinuxRoutingTable"
      /\ fault = "none"
      /\ \E i \in 1..Len(routes) : FailingValues(routes[i]) # {} )
        => ( /\ ret.outcome = "err"
             /\ ret.table = <<>>
             /\ \E i \in 1..Len(routes) : ret.err.num \in FailingValues(routes[i]) )

RECURSIVE Atoi(_)
\* the number a string of decimal digits writes
Atoi(s) ==
    IF s = <<>> THEN 0
    ELSE 10 * Atoi(SubSeq(s, 1, Len(s) - 1)) + DigitVal(s[Len(s)])

\* s writes an octet: one to three decimal digits, at most 255
IsOctet(s) ==
    /\ Len(s) \in 1..3
    /\ \A k \in 1..Len(s) : DigitVal(s[k]) \in 0..9
    /\ Atoi(s) <= 255

\* s is a dotted quad: exactly four octets
IsDottedQuad(s) ==
    LET parts == Split(s, ".")
    IN  Len(parts) = 4 /\ \A k \in 1..4 : IsOctet(parts[k])

\* C6: for 0 <= n < 2^32, DecimalToIP(n) is the dotted quad o0.o1.o2.o3 with
\* n = o0 + 2^8 o1 + 2^16 o2 + 2^24 o3 (the least significant byte first), each
\* octet written without leading zeros; the value of hex 0100000A gives
\* 10.0.0.1 and that of 00000000 gives 0.0.0.0.
C6_LittleEndianOctets ==
    (ret.op = "DecimalToIP" /\ decimal[3] = 0 /\ decimal[4] = 0)
        => LET parts == Split(ret.str, ".")
           IN  /\ IsDottedQuad(ret.str)
               /\ \A k \in 1..4 : Len(parts[k]) > 1 => parts[k][1] # "0"
               /\ Atoi(parts[1]) + 2^8 * Atoi(parts[2]) = decimal[1]
               /\ Atoi(parts[3]) + 2^8 * Atoi(parts[4]) = decimal[2]
               /\ decimal = ParseInt(<<"0", "1", "0", "0", "0", "0", "0", "A">>, 16, 64).val
                     => ret.str = <<"1", "0", ".", "0", ".", "0", ".", "1">>
               /\ decimal = ParseInt(<<"0", "0", "0", "0", "0", "0", "0", "0">>, 16, 64).val
                     => ret.str = <<"0", ".", "0", ".", "0", ".", "0">>

\* C6's case: DecimalToIP has returned for the value of hex 0100000A.
C6_Witness ==
    /\ ret.op = "DecimalToIP"
    /\ decimal = <<10, 256, 0, 0>>
    /\ ret.str = <<"1", "0", ".", "0", ".", "0", ".", "1">>

\* a data row of a valid table: a Gateway of eight hex digits, Flags a decimal
\* bitmask in 0..255, the counters decimal and within 8 bits, no surplus field
ValidRow(r) ==
    /\ FailingValues(r) = {}
    /\ Len(r.Gateway) = 8
    /\ \A k \in 1..Len(r.Gateway) : r.Gateway[k] \notin {"+", "-"}
    /\ FlagsOf(r) \in 0..255
    /\ r.Extra = <<>>

\* C7: for a valid table with at least one data row flagged Up and Gateway,
\* FindLinuxDefaultGW returns no error and a dotted quad.
C7_DottedQuad ==
    ( /\ ret.op = "FindLinuxDefaultGW"
      /\ fault = "none"
      /\ \A i \in 1..Len(routes) : ValidRow(routes[i])
      /\ \E i \in 1..Len(routes) : UpAndGateway(routes[i]) )
        => (ret.outcome = "ok" /\ IsDottedQuad(ret.str))

\* C8: when a call that opened the route file has returned, the file handle is
\* closed, whether the read failed, the parse failed or the parse succeeded.
C8_HandleClosed ==
    (ret.op \in FindOps \cup {"GetLinuxRoutingTable"} /\ handle # "none")
        => handle = "closed"

\* C9: a table of the header row alone, with or without the newline that ends
\* the header line, parses to no entries and no error.
C9_HeaderOnlyIsEmpty ==
    (ret.op = "GetLinuxRoutingTable" /\ fault = "none" /\ routes = <<>>)
        => (ret.outcome = "ok" /\ ret.table = <<>>)

\* C10: the entries GetLinuxRoutingTable returns do not depend on the order of
\* the columns: a table whose columns are permuted, in the header row and in
\* every data row alike, parses as the table in the kernel's order does.
C10_ColumnOrderIrrelevant ==
    (ret.op = "GetLinuxRoutingTable" /\ fault = "none")
        => \E c \in {parseTable(Render(Canonical, routes, newline))} :
              ret.outcome = c.kind /\ ret.table = c.table

\* C11: whatever the text, GetLinuxRoutingTable returns entries or an error
\* and does not fault on description[n]: a data row with more tab-separated
\* fields than the header row has columns does not crash the call.  Tables
\* with a Flags value on which computeRouteFlag itself faults are set aside,
\* so that the only fault left is the header index.
C11_NoHeaderIndexFault ==
    ( /\ ret.op = "GetLinuxRoutingTable"
      /\ \A i \in 1..Len(routes) : ~computeRouteFlag(FlagsOf(routes[i])).panic )
        => ret.outcome \in {"ok", "err"}

====
